---------------------------- MODULE Spec2Model ----------------------------
(***************************************************************************)
(* Model of the serial command channel, device session and macro-expanding *)
(* script interpreter of mcci_catena_provision_ttn.py.                     *)
(*                                                                         *)
(* Text is modelled as a sequence of one-character strings.  A Python      *)
(* value is a record tagged by its type: None, a str, or the 3-tuple       *)
(* (None, code, msg) that writecommand returns for a failed exchange.      *)
(***************************************************************************)
EXTENDS Integers, Sequences, FiniteSets, TLC

(***************************************************************************)
(* Bounds of the model.                                                    *)
(***************************************************************************)
MaxRawLen == 5
MaxLineLen == 5
MaxScriptLen == 2

(***************************************************************************)
(* Python values.                                                          *)
(***************************************************************************)
PyNone == [t |-> "None"]

PyStr(s) == [t |-> "str", v |-> s]

PyFailure(code, msg) == [t |-> "tuple", e0 |-> PyNone, code |-> code, msg |-> msg]

\* type(x) is tuple and x[0] is None: the test every caller of writecommand uses
IsFailureTuple(x) == x.t = "tuple" /\ x.e0 = PyNone

(***************************************************************************)
(* Text helpers.                                                           *)
(***************************************************************************)
RECURSIVE JoinLines(_)
JoinLines(lines) ==
    IF Len(lines) = 0 THEN <<>>
    ELSE IF Len(lines) = 1 THEN lines[1]
    ELSE lines[1] \o <<"\n">> \o JoinLines(Tail(lines))

\* str.splitlines(): breaks at \n, \r, \r\n and \f; no empty last line
RECURSIVE SplitFrom(_, _, _)
SplitFrom(s, i, cur) ==
    IF i > Len(s) THEN (IF cur = <<>> THEN <<>> ELSE <<cur>>)
    ELSE IF s[i] = "\r" /\ i < Len(s) /\ s[i + 1] = "\n"
         THEN <<cur>> \o SplitFrom(s, i + 2, <<>>)
    ELSE IF s[i] \in {"\n", "\r", "\f"}
         THEN <<cur>> \o SplitFrom(s, i + 1, <<>>)
    ELSE SplitFrom(s, i + 1, Append(cur, s[i]))

splitlines(s) == SplitFrom(s, 1, <<>>)

\* sub in s: Python's  sub in s
Contains(s, sub) ==
    \E i \in 1..(Len(s) - Len(sub) + 1) : SubSeq(s, i, i + Len(sub) - 1) = sub

sTimedOut == <<"t","i","m","e","d"," ","o","u","t">>

sOK == <<"O","K">>

(***************************************************************************)
(* writecommand: one exchange with the device.  dev is what the port does  *)
(* during this call: the write raises, the read (or the decode) raises, or *)
(* the read returns the text dev.data.                                     *)
(***************************************************************************)
\* '\n'.join(sResult.splitlines()) + '\n'
NormalizeResult(data) == JoinLines(splitlines(data)) \o <<"\n">>

\* positions (1-based) where  ^\n  can match so that  ([OK]*[\s\S]*)\n$  still
\* matches behind it: an empty line that is not the last character
TerminatorStarts(s) ==
    {j \in 1..(Len(s) - 1) : s[j] = "\n" /\ (j = 1 \/ s[j - 1] = "\n")}

SetMax(S) == CHOOSE x \in S : \A y \in S : y <= x

\* re.search(r'^([\s\S]*)^\n([OK]*[\s\S]*)\n$', sResult, re.MULTILINE):
\* group 1 is greedy, so the last possible empty line separates msg from code
SearchResponse(s) ==
    IF TerminatorStarts(s) = {}
    THEN [found |-> FALSE, msg |-> <<>>, code |-> <<>>]
    ELSE LET j == SetMax(TerminatorStarts(s))
         IN  [found |-> TRUE,
              msg |-> SubSeq(s, 1, j - 1),
              code |-> SubSeq(s, j + 1, Len(s) - 1)]

ParseResult(data) ==
    LET m == SearchResponse(NormalizeResult(data))
        code == IF m.found THEN m.code ELSE sTimedOut
        msg == IF m.found THEN PyStr(m.msg) ELSE PyNone
    IN  [ret |-> IF Contains(code, sOK) THEN msg ELSE PyFailure(code, msg),
         errs |-> IF m.found THEN 0 ELSE 1]

writecommand(sCommand, dev) ==
    IF dev.k = "write_raises"
    THEN [ret |-> PyNone, errs |-> 1, wrote |-> FALSE]
    ELSE IF dev.k = "read_raises"
    THEN [ret |-> PyNone, errs |-> 1, wrote |-> TRUE]
    ELSE [ret |-> ParseResult(dev.data).ret,
          errs |-> ParseResult(dev.data).errs,
          wrote |-> TRUE]

(***************************************************************************)
(* getversion: parse the payload of "system version".                      *)
(***************************************************************************)
sVersionCommand == <<"s","y","s","t","e","m"," ","v","e","r","s","i","o","n","\n">>

sBoard == <<"B","o","a","r","d">>

sPlatformVersion == <<"P","l","a","t","f","o","r","m","-","V","e","r","s","i","o","n">>

sUnknown == <<"?">>

\* re.MULTILINE, passed where re.sub takes its count argument
ReMultiline == 8

PyDict(d) == [t |-> "dict", d |-> d]

\* characters matched by \s
IsSpaceChar(c) == c \in {" ", "\t", "\n", "\r", "\f"}

\* re.sub(r'\n', '\n\r', s, count): only the first count newlines are
\* replaced. newlines[i] is the number of replaced newlines among the first i
\* characters, at[i] the place of s[i] in the result
SubNewline(s, count) ==
    LET newlines == [i \in 0..Len(s) |->
                        LET n == Cardinality({k \in 1..i : s[k] = "\n"})
                        IN  IF n < count THEN n ELSE count]
        at == [i \in 1..Len(s) |-> i + newlines[i - 1]]
    IN  [j \in 1..(Len(s) + newlines[Len(s)]) |->
            IF \E i \in 1..Len(s) : at[i] = j
            THEN s[CHOOSE i \in 1..Len(s) : at[i] = j]
            ELSE "\r"]

\* last index of the run of \S characters starting at i (i - 1 when empty)
NonSpaceRunEnd(w, i) ==
    CHOOSE e \in (i - 1)..Len(w) :
        /\ \A k \in i..e : ~IsSpaceChar(w[k])
        /\ (e = Len(w) \/ IsSpaceChar(w[e + 1]))

\* last index of the run of [ \S] characters starting at i (i - 1 when empty)
ValueRunEnd(w, i) ==
    CHOOSE e \in (i - 1)..Len(w) :
        /\ \A k \in i..e : (w[k] = " " \/ ~IsSpaceChar(w[k]))
        /\ (e = Len(w) \/ ~(w[e + 1] = " " \/ ~IsSpaceChar(w[e + 1])))

\* a match of  \r(\S+): ([ \S]+)\n  starting at i
VersionMatchAt(w, i) ==
    LET e == NonSpaceRunEnd(w, i + 1)
        f == ValueRunEnd(w, e + 2)
        ok == /\ w[i] = "\r"
              /\ e >= i + 2
              /\ w[e] = ":"
              /\ e + 1 <= Len(w)
              /\ w[e + 1] = " "
              /\ f >= e + 2
              /\ f + 1 <= Len(w)
              /\ w[f + 1] = "\n"
    IN  [ok |-> ok,
         key |-> IF ok THEN SubSeq(w, i + 1, e - 1) ELSE <<>>,
         val |-> IF ok THEN SubSeq(w, e + 2, f) ELSE <<>>,
         next |-> IF ok THEN f + 2 ELSE i + 1]

\* re.findall(r'\r(\S+): ([ \S]+)\n', w, re.MULTILINE)
RECURSIVE FindAllVersion(_, _)
FindAllVersion(w, i) ==
    IF i > Len(w) THEN <<>>
    ELSE LET m == VersionMatchAt(w, i)
         IN  IF m.ok THEN <<(<<m.key, m.val>>)>> \o FindAllVersion(w, m.next)
             ELSE FindAllVersion(w, m.next)

\* dict(pairs): a later pair replaces an earlier one with the same key
DictOfPairs(pairs) ==
    [k \in {pairs[n][1] : n \in 1..Len(pairs)} |->
        pairs[SetMax({n \in 1..Len(pairs) : pairs[n][1] = k})][2]]

VersionPairs(sVersion) ==
    FindAllVersion(<<"\r">> \o SubNewline(sVersion, ReMultiline) \o <<"\n">>, 1)

\* getversion without the test for the two required keys
getversion_lenient(sVersion) ==
    IF IsFailureTuple(sVersion)
    THEN [ret |-> PyDict((sBoard :> sUnknown) @@ (sPlatformVersion :> sUnknown)),
          errs |-> 0, raised |-> FALSE]
    ELSE IF sVersion.t # "str"
    THEN [ret |-> PyNone, errs |-> 0, raised |-> TRUE]
    ELSE [ret |-> PyDict(DictOfPairs(VersionPairs(sVersion.v))), errs |-> 0,
          raised |-> FALSE]

\* getversion that answers an unrecognized response with the placeholders
getversion_placeholders(sVersion) ==
    IF IsFailureTuple(sVersion)
    THEN [ret |-> PyDict((sBoard :> sUnknown) @@ (sPlatformVersion :> sUnknown)),
          errs |-> 0, raised |-> FALSE]
    ELSE IF sVersion.t # "str"
    THEN [ret |-> PyNone, errs |-> 0, raised |-> TRUE]
    ELSE IF {sBoard, sPlatformVersion} \subseteq DOMAIN DictOfPairs(VersionPairs(sVersion.v))
    THEN [ret |-> PyDict(DictOfPairs(VersionPairs(sVersion.v))), errs |-> 0,
          raised |-> FALSE]
    ELSE [ret |-> PyDict((sBoard :> sUnknown) @@ (sPlatformVersion :> sUnknown)),
          errs |-> 1, raised |-> FALSE]

\* getversion after its exchange: sVersion is what writecommand returned
getversion(sVersion) ==
    IF IsFailureTuple(sVersion)
    THEN [ret |-> PyDict((sBoard :> sUnknown) @@ (sPlatformVersion :> sUnknown)),
          errs |-> 0, raised |-> FALSE]
    ELSE IF sVersion.t # "str"
    THEN [ret |-> PyNone, errs |-> 0, raised |-> TRUE]
    ELSE LET dResult == DictOfPairs(VersionPairs(sVersion.v))
         IN  IF sBoard \in DOMAIN dResult /\ sPlatformVersion \in DOMAIN dResult
             THEN [ret |-> PyDict(dResult), errs |-> 0, raised |-> FALSE]
             ELSE [ret |-> PyNone, errs |-> 1, raised |-> FALSE]

(***************************************************************************)
(* getsyseui: parse the payload of "system configure syseui".              *)
(***************************************************************************)
sEuiCommand == <<"s","y","s","t","e","m"," ","c","o","n","f","i","g","u","r","e"," ","s","y","s","e","u","i","\n">>

lenEui == 64 \div 4

kLenEuiStr == lenEui + (lenEui \div 2)

HexDigits ==
    {"0","1","2","3","4","5","6","7","8","9",
     "A","B","C","D","E","F","a","b","c","d","e","f"}

LowerSeq ==
    <<"a","b","c","d","e","f","g","h","i","j","k","l","m",
      "n","o","p","q","r","s","t","u","v","w","x","y","z">>

UpperSeq ==
    <<"A","B","C","D","E","F","G","H","I","J","K","L","M",
      "N","O","P","Q","R","S","T","U","V","W","X","Y","Z">>

IsLower(c) == \E i \in 1..Len(LowerSeq) : LowerSeq[i] = c

UpperChar(c) ==
    IF IsLower(c) THEN UpperSeq[CHOOSE i \in 1..Len(LowerSeq) : LowerSeq[i] = c]
    ELSE c

\* checkcomms that stores sEUI without .upper()
upper_forgotten(s) == s

\* str.upper()
upper(s) == [i \in 1..Len(s) |-> UpperChar(s[i])]

\* re.match(r'^(([0-9A-Fa-f]{2})-){7}([0-9A-Fa-f]{2})', sEUI) is not None
HexMatch(sEUI) ==
    /\ Len(sEUI) >= 23
    /\ \A i \in 1..23 :
          IF i % 3 = 0 THEN sEUI[i] = "-" ELSE sEUI[i] \in HexDigits

\* re.sub(r'-', '', sEUI)
RemoveHyphens(sEUI) == SelectSeq(sEUI, LAMBDA c : c # "-")

\* getsyseui without the test of the length and of the hex groups
getsyseui_unchecked(sEUI, permissive) ==
    IF IsFailureTuple(sEUI)
    THEN [ret |-> PyNone,
          errs |-> IF permissive THEN 0 ELSE 1,
          warns |-> IF permissive THEN 1 ELSE 0,
          raised |-> FALSE]
    ELSE IF sEUI.t # "str"
    THEN [ret |-> PyNone, errs |-> 0, warns |-> 0, raised |-> TRUE]
    ELSE [ret |-> PyStr(RemoveHyphens(sEUI.v)), errs |-> 0, warns |-> 0,
          raised |-> FALSE]

\* getsyseui after its exchange: sEUI is what writecommand returned
getsyseui(sEUI, permissive) ==
    IF IsFailureTuple(sEUI)
    THEN [ret |-> PyNone,
          errs |-> IF permissive THEN 0 ELSE 1,
          warns |-> IF permissive THEN 1 ELSE 0,
          raised |-> FALSE]
    ELSE IF sEUI.t # "str"
    THEN [ret |-> PyNone, errs |-> 0, warns |-> 0, raised |-> TRUE]
    ELSE IF Len(sEUI.v) # kLenEuiStr \/ ~HexMatch(sEUI.v)
    THEN [ret |-> PyNone, errs |-> 1, warns |-> 0, raised |-> FALSE]
    ELSE [ret |-> PyStr(RemoveHyphens(sEUI.v)), errs |-> 0, warns |-> 0,
          raised |-> FALSE]

sSyseuiNotSet == <<"{","s","y","s","e","u","i","-","n","o","t","-","s","e","t","}">>

(***************************************************************************)
(* expand: macro expansion of one script line.                             *)
(***************************************************************************)
\* last index of the run of [a-z ] characters at the start of sLine
PrefixEnd(sLine) ==
    CHOOSE p \in 0..Len(sLine) :
        /\ \A k \in 1..p : (IsLower(sLine[k]) \/ sLine[k] = " ")
        /\ (p = Len(sLine) \/ ~(IsLower(sLine[p + 1]) \/ sLine[p + 1] = " "))

\* positions where  $  matches without re.MULTILINE: the end of the text, or
\* just before a newline that ends the text
AtEnd(sLine, i) ==
    \/ i = Len(sLine) + 1
    \/ (i = Len(sLine) /\ sLine[i] = "\n")

\* indexes q of a  }  that  \{.*\}  can end at when  {  is at index b
ClosersFrom(sLine, b) ==
    {q \in (b + 1)..Len(sLine) :
        /\ sLine[q] = "}"
        /\ \A k \in (b + 1)..(q - 1) : sLine[k] # "\n"}

\* MacroMatch without the  $  that ties the reference to the end of the line
MacroMatchLoose(sLine) ==
    LET p == PrefixEnd(sLine)
    IN  /\ p >= 1
        /\ p + 2 <= Len(sLine)
        /\ sLine[p + 1] = "$"
        /\ sLine[p + 2] = "{"
        /\ ClosersFrom(sLine, p + 2) # {}

\* re.search(r'^([a-z ]+)\$(\{.*\})$', sLine)
MacroMatch(sLine) ==
    LET p == PrefixEnd(sLine)
    IN  /\ p >= 1
        /\ p + 2 <= Len(sLine)
        /\ sLine[p + 1] = "$"
        /\ sLine[p + 2] = "{"
        /\ \E q \in ClosersFrom(sLine, p + 2) : AtEnd(sLine, q + 1)

\* group 1 of  re.search(r'\$\{(.*)\}', sLine)  on a line that MacroMatch
\* accepts: the first  ${  is the one behind the prefix, and  .*  is greedy
MacroName(sLine) ==
    LET p == PrefixEnd(sLine)
    IN  SubSeq(sLine, p + 3, SetMax(ClosersFrom(sLine, p + 2)) - 1)

\* expand that forgets to count the unknown macro as an error
expand_silent(sLine, dVars) ==
    IF ~MacroMatch(sLine)
    THEN [ret |-> sLine, errs |-> 0, raised |-> FALSE]
    ELSE LET sPrefix == SubSeq(sLine, 1, PrefixEnd(sLine))
             sName == MacroName(sLine)
         IN  IF sName \notin DOMAIN dVars
             THEN [ret |-> sPrefix \o <<"{">> \o sName \o <<"}">>,
                   errs |-> 0, raised |-> FALSE]
             ELSE IF dVars[sName].t # "str"
             THEN [ret |-> <<>>, errs |-> 0, raised |-> TRUE]
             ELSE [ret |-> sPrefix \o dVars[sName].v, errs |-> 0,
                   raised |-> FALSE]

\* dVars maps each macro name to a Python value (a str, or None when unset)
expand(sLine, dVars) ==
    IF ~MacroMatch(sLine)
    THEN [ret |-> sLine, errs |-> 0, raised |-> FALSE]
    ELSE LET sPrefix == SubSeq(sLine, 1, PrefixEnd(sLine))
             sName == MacroName(sLine)
         IN  IF sName \notin DOMAIN dVars
             THEN [ret |-> sPrefix \o <<"{">> \o sName \o <<"}">>,
                   errs |-> 1, raised |-> FALSE]
             ELSE IF dVars[sName].t # "str"
             THEN [ret |-> <<>>, errs |-> 0, raised |-> TRUE]
             ELSE [ret |-> sPrefix \o dVars[sName].v, errs |-> 0,
                   raised |-> FALSE]

(***************************************************************************)
(* doscript: the per-line text processing.                                 *)
(***************************************************************************)
\* re.sub('\n$', '', line)
StripNewline(line) ==
    IF Len(line) >= 2 /\ line[Len(line)] = "\n" /\ line[Len(line) - 1] = "\n"
    THEN SubSeq(line, 1, Len(line) - 2)
    ELSE IF Len(line) >= 1 /\ line[Len(line)] = "\n"
    THEN SubSeq(line, 1, Len(line) - 1)
    ELSE line

\* last index of the run of \s characters at the start of line
LeadingSpaceEnd(line) ==
    CHOOSE p \in 0..Len(line) :
        /\ \A k \in 1..p : IsSpaceChar(line[k])
        /\ (p = Len(line) \/ ~IsSpaceChar(line[p + 1]))

\* re.sub(r'^\s*#.*$', '', line)
StripComment(line) ==
    LET p == LeadingSpaceEnd(line)
    IN  IF /\ p + 1 <= Len(line)
           /\ line[p + 1] = "#"
           /\ \A k \in (p + 2)..(Len(line) - 1) : line[k] # "\n"
        THEN (IF line[Len(line)] = "\n" THEN <<"\n">> ELSE <<>>)
        ELSE line

\* re.sub(r'^\s*$', '', line) == ''
IsBlank(line) == \A k \in 1..Len(line) : IsSpaceChar(line[k])

\* doscript that goes on after a failed line
LineFailsNever(sResult) == FALSE

\* the test of doscript on the result of a line's exchange
LineFails(sResult) == IsFailureTuple(sResult)

\* setechooff that returns True whatever the exchange gave
EchoFailsNever(sEcho) == FALSE

\* the test of setechooff on the result of its exchange
EchoFails(sEcho) == IsFailureTuple(sEcho)

sEchoOffCommand == <<"s","y","s","t","e","m"," ","e","c","h","o"," ","o","f","f","\n">>

(***************************************************************************)
(* Command line: -V NAME=VALUE.                                            *)
(***************************************************************************)
IsNameChar(c) ==
    \/ IsLower(c)
    \/ \E i \in 1..Len(UpperSeq) : UpperSeq[i] = c
    \/ c \in {"0","1","2","3","4","5","6","7","8","9","_"}

NameEnd(item) ==
    CHOOSE p \in 0..Len(item) :
        /\ \A k \in 1..p : IsNameChar(item[k])
        /\ (p = Len(item) \/ ~IsNameChar(item[p + 1]))

\* re.search(r'^([A-Za-z0-9_]+)=(.*)$', item)
VarSpecMatch(item) ==
    /\ NameEnd(item) >= 1
    /\ NameEnd(item) + 1 <= Len(item)
    /\ item[NameEnd(item) + 1] = "="
    /\ \A k \in (NameEnd(item) + 2)..Len(item) : item[k] # "\n"

VarSpecName(item) == SubSeq(item, 1, NameEnd(item))

VarSpecValue(item) == SubSeq(item, NameEnd(item) + 2, Len(item))

sAPPEUI == <<"A","P","P","E","U","I">>

sDEVEUI == <<"D","E","V","E","U","I">>

sAPPKEY == <<"A","P","P","K","E","Y">>

sAPPID == <<"A","P","P","I","D">>

sBASENAME == <<"B","A","S","E","N","A","M","E">>

sDEVID == <<"D","E","V","I","D">>

sFREQPLAN == <<"F","R","E","Q","P","L","A","N">>

sFREQPLANID == <<"F","R","E","Q","P","L","A","N","I","D">>

sLORAVER == <<"L","O","R","A","V","E","R">>

sLORAPHYVER == <<"L","O","R","A","P","H","Y","V","E","R">>

sSYSEUI == <<"S","Y","S","E","U","I">>

\* AppContext.__init__: every built-in variable is None
DefaultVariables ==
    [k \in {sAPPEUI, sDEVEUI, sAPPKEY, sAPPID, sBASENAME, sDEVID, sFREQPLAN,
            sFREQPLANID, sLORAVER, sLORAPHYVER, sSYSEUI} |-> PyNone]

(***************************************************************************)
(* Inputs: what the device and the port do during one exchange, the        *)
(* script file, and the -V options.                                        *)
(***************************************************************************)
DevWriteRaises == [k |-> "write_raises"]

DevReadRaises == [k |-> "read_raises"]

DevBytes(data) == [k |-> "bytes", data |-> data]

tOK == <<"\n","O","K","\n">>

tErr2 == <<"\n","?","2","\n">>

tVersionA == <<"b","o","a","r","d"," ","i","n","f","o","\n","P","l","a","t","f","o","r","m","-","V","e","r","s","i","o","n",":"," ","3",".","2","\n","\n","O","K","\n">>

tVersionB == <<"B","o","a","r","d",":"," ","b","o","a","r","d","\n","P","l","a","t","f","o","r","m","-","V","e","r","s","i","o","n",":"," ","3",".","2","\n","\n","O","K","\n">>

tEuiUpper == <<"A","A","-","B","B","-","C","C","-","D","D","-","E","E","-","F","F","-","0","0","-","1","1","\n","\n","O","K","\n">>

tEuiMixed == <<"a","a","-","b","B","-","c","c","-","d","d","-","e","e","-","f","f","-","0","0","-","1","1","\n","\n","O","K","\n">>

tEuiShort == <<"A","A","-","B","B","\n","\n","O","K","\n">>

\* answers to the session commands
SessionDevs ==
    {DevWriteRaises, DevReadRaises} \cup
    {DevBytes(t) : t \in {<<>>, tOK, tErr2, tVersionA, tVersionB,
                          tEuiUpper, tEuiMixed, tEuiShort}}

\* answers to the commands of a script
ScriptDevs ==
    {DevWriteRaises, DevReadRaises} \cup {DevBytes(t) : t \in {<<>>, tOK, tErr2}}

RawAlphabet == {"a", "O", "K", "?", "\n", "\r"}

\* every text of at most MaxRawLen characters, and the texts of the session
BoundedDevs ==
    {DevWriteRaises, DevReadRaises} \cup
    {DevBytes(t) : t \in UNION {[1..n -> RawAlphabet] : n \in 0..MaxRawLen}} \cup
    {DevBytes(t \o tOK) : t \in {<<"a", "\n">>, <<"a", "\r", "\n">>, <<"a", "\n", "a", "\n">>}} \cup
    SessionDevs

lPlain == <<"a","\n">>

lPlainNoNl == <<"b">>

lComment == <<"#","c","\n">>

lTrailing == <<"a"," ","#","c","\n">>

lBlank == <<"\n">>

lUnknown == <<"a"," ","$","{","X","}","\n">>

lAppEui == <<"s","y","s","t","e","m"," ","c","o","n","f","i","g","u","r","e"," ","a","p","p","e","u","i"," ","$","{","A","P","P","E","U","I","}","\n">>

lSysEui == <<"a"," ","$","{","S","Y","S","E","U","I","}","\n">>

LinePool == {lPlain, lPlainNoNl, lComment, lTrailing, lBlank, lUnknown, lAppEui, lSysEui}

\* readlines(): only the last line of a file can lack its newline
IsFileText(lines) ==
    \A i \in 1..(Len(lines) - 1) : lines[i][Len(lines[i])] = "\n"

BoundedScripts ==
    {ls \in UNION {[1..n -> LinePool] : n \in 0..MaxScriptLen} : IsFileText(ls)}

ScriptFile(given, readable, lines) ==
    [given |-> given, readable |-> readable, lines |-> lines]

BoundedFiles ==
    {ScriptFile(TRUE, FALSE, <<>>)} \cup
    {ScriptFile(TRUE, TRUE, ls) : ls \in BoundedScripts}

RunFiles ==
    {ScriptFile(FALSE, FALSE, <<>>),
     ScriptFile(TRUE, FALSE, <<>>),
     ScriptFile(TRUE, TRUE, <<>>),
     ScriptFile(TRUE, TRUE, <<lSysEui, lComment, lPlainNoNl>>)}

LineAlphabet == {"a", " ", "$", "{", "}", "X"}

BoundedLines == UNION {[1..n -> LineAlphabet] : n \in 0..MaxLineLen}

vAppEui == <<"A","P","P","E","U","I","=","0","1">>

vBasename == <<"B","A","S","E","N","A","M","E","=","b">>

vJoinEui == <<"J","O","I","N","E","U","I","=","0","2">>

vFreqPlan == <<"F","R","E","Q","P","L","A","N","=","U","S","9","1","5">>

vIllegal == <<"=","x">>

\* the lists of -V arguments
VarOptions ==
    {<<>>, <<vAppEui>>, <<vIllegal>>, <<vBasename, vJoinEui, vFreqPlan>>}

(***************************************************************************)
(* State.                                                                  *)
(***************************************************************************)
VARIABLES
    pc,             \* position of the process in __main__
    exitCode,       \* exit status of the process, once pc is "exited" or "raised"
    nWarnings,      \* oAppContext.nWarnings
    nErrors,        \* oAppContext.nErrors
    fWerror,        \* oAppContext.fWerror
    fWriteEnable,   \* oAppContext.fWriteEnable
    fPermissive,    \* oAppContext.fPermissive
    fRegister,      \* oAppContext.fRegister
    dVariables,     \* oAppContext.dVariables
    is_open,        \* comPort.is_open
    tVersion,       \* the local tVersion of checkcomms
    ctxVersion,     \* oAppContext.tVersion
    calls,          \* the calls of writecommand so far, in order
    wc,             \* the last exchange: command, port behaviour, result
    scriptFile,     \* the -s option and the file it names
    lineNo,         \* index of the script line doscript is at
    xp,             \* the last call of expand: argument and result
    scriptRet,      \* what doscript returned
    exitchecksRet,  \* what exitchecks returned
    optBaudrate,    \* opt.baudrate: the -baud option
    nBaudRate,      \* oAppContext.nBaudRate
    baudrate,       \* comPort.baudrate, once the port is configured
    io,             \* comPort's input buffer and what writecommand does on it
    twin            \* history: the run so far, kept to compare two runs

vars ==
    <<pc, exitCode, nWarnings, nErrors, fWerror, fWriteEnable, fPermissive,
      fRegister, dVariables, is_open, tVersion, ctxVersion, calls, wc,
      scriptFile, lineNo, xp, scriptRet, exitchecksRet, optBaudrate,
      nBaudRate, baudrate, io, twin>>

\* AppContext.nBaudRate as __init__ leaves it
nBaudRateDefault == 115200

PyBool(b) == [t |-> "bool", v |-> b]

PyInt(n) == [t |-> "int", v |-> n]

NoExchange == [cmd |-> <<>>, dev |-> [k |-> "none"], ret |-> PyNone]

NoExpand == [called |-> FALSE, line |-> <<>>, ret |-> <<>>, raised |-> FALSE]

CallRec(sCommand, r) == [cmd |-> sCommand, wrote |-> r.wrote, kind |-> r.ret.t]

WcRec(sCommand, dev, r) == [cmd |-> sCommand, dev |-> dev, ret |-> r.ret]

XpRec(sLine, e) == [called |-> TRUE, line |-> sLine, ret |-> e.ret, raised |-> e.raised]

\* the commands that reached the port, in order
Written == SelectSeq(calls, LAMBDA c : c.wrote)

\* the state of the process, as the history keeps it
Snapshot ==
    [pc |-> pc, exitCode |-> exitCode, nWarnings |-> nWarnings,
     nErrors |-> nErrors, fWerror |-> fWerror, fWriteEnable |-> fWriteEnable,
     fPermissive |-> fPermissive, fRegister |-> fRegister,
     dVariables |-> dVariables, is_open |-> is_open, tVersion |-> tVersion,
     ctxVersion |-> ctxVersion, calls |-> calls, wc |-> wc,
     scriptFile |-> scriptFile, lineNo |-> lineNo, xp |-> xp,
     scriptRet |-> scriptRet, exitchecksRet |-> exitchecksRet,
     optBaudrate |-> optBaudrate, nBaudRate |-> nBaudRate,
     baudrate |-> baudrate]

\* the port at rest: nothing buffered, no call of writecommand under way.
\* The bytes buffered are counted by the time they arrived in: before the
\* call tested in_waiting (pre), between that test and the write (mid),
\* after the write (post)
NoBytes == [pre |-> 0, mid |-> 0, post |-> 0]

NoIo ==
    [at |-> "idle", call |-> 0, buf |-> NoBytes, arrivals |-> 0, ops |-> <<>>,
     got |-> NoBytes]

\* no history is kept
NoTwin == [on |-> FALSE, run |-> 1, at |-> 1, log |-> <<>>]

\* the step sees what the step kept in the history saw: the device behaves
\* the same in the exchange, and so does the TTN client
SameBehaviour(l) ==
    /\ wc'.dev = l.wc.dev
    /\ pc \in {"ttncli", "register"} => pc' = l.pc

\* the history of a step: the first run is recorded, state after state; the
\* second run follows the first, seeing the same behaviour at each step
Twinned ==
    IF ~twin.on THEN twin' = twin
    ELSE IF twin.run = 1
    THEN twin' = [twin EXCEPT !.log = Append(@, Snapshot'), !.at = @ + 1]
    ELSE /\ twin.at < Len(twin.log)
         /\ SameBehaviour(twin.log[twin.at + 1])
         /\ twin' = [twin EXCEPT !.at = @ + 1]

\* AppContext.__init__ and the construction of comPort
InitContext ==
    /\ pc = "main"
    /\ exitCode = 0
    /\ nWarnings = 0
    /\ nErrors = 0
    /\ fWerror = FALSE
    /\ fWriteEnable = TRUE
    /\ fPermissive = FALSE
    /\ fRegister = FALSE
    /\ dVariables = DefaultVariables
    /\ is_open = FALSE
    /\ tVersion = PyNone
    /\ ctxVersion = PyNone
    /\ calls = <<>>
    /\ wc = NoExchange
    /\ lineNo = 0
    /\ xp = NoExpand
    /\ scriptRet = PyNone
    /\ exitchecksRet = PyNone
    /\ nBaudRate = PyInt(nBaudRateDefault)
    /\ baudrate = PyNone
    /\ io = NoIo
    /\ twin = NoTwin

Init ==
    /\ InitContext
    /\ scriptFile \in RunFiles
    /\ optBaudrate = PyNone

(***************************************************************************)
(* __main__ up to the opening of the port.                                 *)
(***************************************************************************)
\* the -V loop: stops at the first illegal specification
RECURSIVE ApplyVars(_, _)
ApplyVars(d, items) ==
    IF Len(items) = 0 \/ ~VarSpecMatch(items[1]) THEN d
    ELSE ApplyVars((VarSpecName(items[1]) :> PyStr(VarSpecValue(items[1]))) @@ d,
                   Tail(items))

\* the least baud rate __main__ accepts
nBaudRateMin == 9600

\* the -baud option: absent (or given without a number), or an int
BaudOptions ==
    {PyNone} \cup {PyInt(b) : b \in {-1, 0, 9599, 9600, 9601, 115200, 230400}}

\* opt.baudrate, as a condition: None and 0 are false
BaudGiven(b) == b.t = "int" /\ b.v # 0

\* opt.baudrate and (opt.baudrate < 9600)
BaudTooSmall(b) == BaudGiven(b) /\ b.v < nBaudRateMin

\* oAppContext.nBaudRate after the test of opt.baudrate
BaudRateOf(b, n) == IF BaudGiven(b) /\ b.v > nBaudRateMin THEN b ELSE n

\* __main__, from the parsed options to the call of openport: the baud rate,
\* the settings of the port, the -V arguments, the flags
main_args ==
    /\ pc = "main"
    /\ IF BaudTooSmall(optBaudrate)
       THEN /\ nErrors' = nErrors + 1
            /\ pc' = "exited"
            /\ exitCode' = 1
            /\ UNCHANGED <<nBaudRate, baudrate, dVariables, fWerror,
                           fWriteEnable, fPermissive, fRegister>>
       ELSE /\ nBaudRate' = BaudRateOf(optBaudrate, nBaudRate)
            /\ baudrate' = nBaudRate'
            /\ \E w, we, p, r \in BOOLEAN, vs \in VarOptions :
                  /\ dVariables' = ApplyVars(dVariables, vs)
                  /\ IF \E i \in 1..Len(vs) : ~VarSpecMatch(vs[i])
                     THEN /\ nErrors' = nErrors + 1
                          /\ pc' = "exited"
                          /\ exitCode' = 1
                          /\ UNCHANGED <<fWerror, fWriteEnable, fPermissive,
                                         fRegister>>
                     ELSE /\ fWerror' = w
                          /\ fWriteEnable' = we
                          /\ fPermissive' = p
                          /\ fRegister' = r
                          /\ pc' = "openport"
                          /\ UNCHANGED <<nErrors, exitCode>>
    /\ UNCHANGED <<nWarnings, is_open, tVersion, ctxVersion, calls, wc,
                   scriptFile, lineNo, xp, scriptRet, exitchecksRet,
                   optBaudrate, io>>
    /\ Twinned

\* openport that takes an already-open port for an error
openport_on_strict(portAvail, opens) ==
    /\ pc = "openport"
    /\ IF ~portAvail
       THEN /\ nErrors' = nErrors + 1
            /\ pc' = "exited"
            /\ exitCode' = 1
            /\ UNCHANGED <<nWarnings, is_open>>
       ELSE IF ~is_open
       THEN IF opens
            THEN /\ is_open' = TRUE
                 /\ pc' = "setechooff"
                 /\ UNCHANGED <<nErrors, nWarnings, exitCode>>
            ELSE /\ nErrors' = nErrors + 1
                 /\ pc' = "exited"
                 /\ exitCode' = 1
                 /\ UNCHANGED <<nWarnings, is_open>>
       ELSE /\ nErrors' = nErrors + 1
            /\ pc' = "exited"
            /\ exitCode' = 1
            /\ UNCHANGED <<nWarnings, is_open>>
    /\ UNCHANGED <<fWerror, fWriteEnable, fPermissive, fRegister, dVariables,
                   tVersion, ctxVersion, calls, wc, scriptFile, lineNo, xp,
                   scriptRet, exitchecksRet>>
    /\ UNCHANGED <<optBaudrate, nBaudRate, baudrate, io>>
    /\ Twinned

\* openport and the test __main__ makes on its result; portAvail: the port is
\* in the list of comports(); opens: comPort.open() does not raise
openport_on(portAvail, opens) ==
    /\ pc = "openport"
    /\ IF ~portAvail
       THEN /\ nErrors' = nErrors + 1
            /\ pc' = "exited"
            /\ exitCode' = 1
            /\ UNCHANGED <<nWarnings, is_open>>
       ELSE IF ~is_open
       THEN IF opens
            THEN /\ is_open' = TRUE
                 /\ pc' = "setechooff"
                 /\ UNCHANGED <<nErrors, nWarnings, exitCode>>
            ELSE /\ nErrors' = nErrors + 1
                 /\ pc' = "exited"
                 /\ exitCode' = 1
                 /\ UNCHANGED <<nWarnings, is_open>>
       ELSE /\ nWarnings' = nWarnings + 1
            /\ pc' = "setechooff"
            /\ UNCHANGED <<nErrors, is_open, exitCode>>
    /\ UNCHANGED <<fWerror, fWriteEnable, fPermissive, fRegister, dVariables,
                   tVersion, ctxVersion, calls, wc, scriptFile, lineNo, xp,
                   scriptRet, exitchecksRet>>
    /\ UNCHANGED <<optBaudrate, nBaudRate, baudrate, io>>
    /\ Twinned

openport == \E portAvail, opens \in BOOLEAN : openport_on(portAvail, opens)

(***************************************************************************)
(* The device session.                                                     *)
(***************************************************************************)
\* setechooff, trying again after a failure
setechooff_retrying ==
    /\ pc = "setechooff"
    /\ \E dev \in SessionDevs :
          LET r == writecommand(sEchoOffCommand, dev)
          IN  /\ calls' = Append(calls, CallRec(sEchoOffCommand, r))
              /\ wc' = WcRec(sEchoOffCommand, dev, r)
              /\ nErrors' = nErrors + r.errs
              /\ pc' = IF EchoFails(r.ret) THEN "setechooff" ELSE "getversion"
              /\ UNCHANGED exitCode
    /\ UNCHANGED <<nWarnings, fWerror, fWriteEnable, fPermissive, fRegister,
                   dVariables, is_open, tVersion, ctxVersion, scriptFile,
                   lineNo, xp, scriptRet, exitchecksRet>>
    /\ UNCHANGED <<optBaudrate, nBaudRate, baudrate, io>>
    /\ Twinned

\* setechooff: the echo is turned off before anything else is asked
setechooff ==
    /\ pc = "setechooff"
    /\ \E dev \in SessionDevs :
          LET r == writecommand(sEchoOffCommand, dev)
          IN  /\ calls' = Append(calls, CallRec(sEchoOffCommand, r))
              /\ wc' = WcRec(sEchoOffCommand, dev, r)
              /\ IF EchoFails(r.ret)
                 THEN /\ nErrors' = nErrors + r.errs + 1
                      /\ pc' = "exited"
                      /\ exitCode' = 1
                 ELSE /\ nErrors' = nErrors + r.errs
                      /\ pc' = "getversion"
                      /\ UNCHANGED exitCode
    /\ UNCHANGED <<nWarnings, fWerror, fWriteEnable, fPermissive, fRegister,
                   dVariables, is_open, tVersion, ctxVersion, scriptFile,
                   lineNo, xp, scriptRet, exitchecksRet>>
    /\ UNCHANGED <<optBaudrate, nBaudRate, baudrate, io>>
    /\ Twinned

\* checkcomms, from its start to the choice made on tVersion
checkcomms_getversion ==
    /\ pc = "getversion"
    /\ \E dev \in SessionDevs :
          LET r == writecommand(sVersionCommand, dev)
              g == getversion(r.ret)
          IN  /\ calls' = Append(calls, CallRec(sVersionCommand, r))
              /\ wc' = WcRec(sVersionCommand, dev, r)
              /\ nErrors' = nErrors + r.errs + g.errs
              /\ IF g.raised
                 THEN /\ pc' = "raised"
                      /\ exitCode' = 1
                      /\ UNCHANGED tVersion
                 ELSE /\ tVersion' = g.ret
                      /\ pc' = IF g.ret # PyNone THEN "getsyseui" ELSE "ttncli"
                      /\ UNCHANGED exitCode
    /\ UNCHANGED <<nWarnings, fWerror, fWriteEnable, fPermissive, fRegister,
                   dVariables, is_open, ctxVersion, scriptFile, lineNo, xp,
                   scriptRet, exitchecksRet>>
    /\ UNCHANGED <<optBaudrate, nBaudRate, baudrate, io>>
    /\ Twinned

\* checkcomms, from the call of getsyseui to its end
checkcomms_getsyseui ==
    /\ pc = "getsyseui"
    /\ \E dev \in SessionDevs :
          LET r == writecommand(sEuiCommand, dev)
              e == getsyseui(r.ret, fPermissive)
              sEUI == IF e.ret = PyNone /\ fPermissive
                      THEN PyStr(sSyseuiNotSet) ELSE e.ret
          IN  /\ calls' = Append(calls, CallRec(sEuiCommand, r))
              /\ wc' = WcRec(sEuiCommand, dev, r)
              /\ nWarnings' = nWarnings + e.warns
              /\ IF e.raised
                 THEN /\ nErrors' = nErrors + r.errs
                      /\ pc' = "raised"
                      /\ exitCode' = 1
                      /\ UNCHANGED <<dVariables, ctxVersion>>
                 ELSE IF sEUI # PyNone
                 THEN /\ nErrors' = nErrors + r.errs + e.errs
                      /\ dVariables' = [dVariables EXCEPT ![sSYSEUI] = PyStr(upper(sEUI.v))]
                      /\ ctxVersion' = tVersion
                      /\ pc' = "ttncli"
                      /\ UNCHANGED exitCode
                 ELSE /\ nErrors' = nErrors + r.errs + e.errs + 1
                      /\ pc' = "exited"
                      /\ exitCode' = 1
                      /\ UNCHANGED <<dVariables, ctxVersion>>
    /\ UNCHANGED <<fWerror, fWriteEnable, fPermissive, fRegister, is_open,
                   tVersion, scriptFile, lineNo, xp, scriptRet, exitchecksRet>>
    /\ UNCHANGED <<optBaudrate, nBaudRate, baudrate, io>>
    /\ Twinned

(***************************************************************************)
(* Registration through the TTN command line client.                       *)
(***************************************************************************)
sJOINEUI == <<"J","O","I","N","E","U","I">>

sLoraVerDefault == <<"1",".","0",".","3">>

sLoraPhyVer == <<"P","H","Y","_","V","1","_","0","_","3","_","R","E","V","_","A">>

sFreqPlanIdDefault == <<"U","S","_","9","0","2","_","9","2","8","_","F","S","B","_","2">>

\* what the operator types at the prompts, and what the client reports
sEnteredEui == <<"0","0","1","1","2","2","3","3","4","4","5","5","6","6","7","7">>

sEnteredAppId == <<"a","p","p">>

sReportedKey == <<"K","1">>

FreqPlanIds ==
    (<<"A","S","9","2","3">> :> <<"A","S","_","9","2","3">>) @@
    (<<"A","U","9","1","5">> :> <<"A","U","_","9","1","5","_","9","2","8","_","F","S","B","_","2">>) @@
    (<<"E","U","8","6","8">> :> <<"E","U","_","8","6","3","_","8","7","0","_","T","T","N">>) @@
    (<<"I","N","8","6","6">> :> <<"I","N","_","8","6","5","_","8","6","7">>) @@
    (<<"J","P","9","2","3">> :> <<"A","S","_","9","2","0","_","9","2","3","_","L","B","T">>) @@
    (<<"K","R","9","2","0">> :> <<"K","R","_","9","2","0","_","9","2","3","_","T","T","N">>) @@
    (<<"U","S","9","1","5">> :> <<"U","S","_","9","0","2","_","9","2","8","_","F","S","B","_","2">>)

LowerChar(c) ==
    IF \E i \in 1..Len(UpperSeq) : UpperSeq[i] = c
    THEN LowerSeq[CHOOSE i \in 1..Len(UpperSeq) : UpperSeq[i] = c]
    ELSE c

\* str.lower()
lower(s) == [i \in 1..Len(s) |-> LowerChar(s[i])]

\* s.replace('\n', '')
RemoveNewlines(s) == SelectSeq(s, LAMBDA c : c # "\n")

\* truth value of a variable: None and '' are false
Truthy(v) == v.t = "str" /\ v.v # <<>>

\* dict assignment
SetVar(d, k, v) == (k :> PyStr(v)) @@ d

\* checkttnvars, one operator per variable it sets up; s.out is "ok", "fatal"
\* or "raised" and s.d is the mapping so far
TtnStrip(d, k) == SetVar(d, k, RemoveNewlines(d[k].v))

TtnSysEui(d) ==
    IF ~Truthy(d[sSYSEUI]) \/ d[sSYSEUI].v = upper(sSyseuiNotSet)
    THEN SetVar(d, sSYSEUI, sEnteredEui)
    ELSE TtnStrip(d, sSYSEUI)

TtnAppId(d) ==
    IF ~Truthy(d[sAPPID]) THEN SetVar(d, sAPPID, sEnteredAppId)
    ELSE TtnStrip(d, sAPPID)

TtnBasename(d) ==
    IF ~Truthy(d[sBASENAME]) THEN [out |-> "fatal", d |-> d]
    ELSE [out |-> "ok",
          d |-> SetVar(d, sDEVID,
                       RemoveNewlines(d[sBASENAME].v)
                           \o lower(RemoveNewlines(lower(d[sSYSEUI].v))))]

TtnJoinEui(s) ==
    IF s.out # "ok" THEN s
    ELSE IF sJOINEUI \notin DOMAIN s.d THEN [out |-> "raised", d |-> s.d]
    ELSE IF ~Truthy(s.d[sJOINEUI])
    THEN [out |-> "ok", d |-> SetVar(s.d, sJOINEUI, sEnteredEui)]
    ELSE [out |-> "ok", d |-> TtnStrip(s.d, sJOINEUI)]

TtnLoraVer(d) ==
    IF ~Truthy(d[sLORAVER]) THEN SetVar(d, sLORAVER, sLoraVerDefault)
    ELSE TtnStrip(d, sLORAVER)

TtnFreqPlan(d) ==
    IF ~Truthy(d[sFREQPLAN])
    THEN SetVar(SetVar(d, sLORAPHYVER, sLoraPhyVer), sFREQPLANID, sFreqPlanIdDefault)
    ELSE TtnStrip(d, sFREQPLAN)

TtnRegion(d) ==
    IF d[sFREQPLAN].t = "str" /\ d[sFREQPLAN].v \in DOMAIN FreqPlanIds
    THEN [out |-> "ok",
          d |-> SetVar(SetVar(d, sLORAPHYVER, sLoraPhyVer),
                       sFREQPLANID, FreqPlanIds[d[sFREQPLAN].v])]
    ELSE [out |-> "fatal", d |-> d]

TtnTail(s) ==
    IF s.out # "ok" THEN s ELSE TtnRegion(TtnFreqPlan(TtnLoraVer(s.d)))

checkttnvars(d) == TtnTail(TtnJoinEui(TtnBasename(TtnAppId(TtnSysEui(d)))))

\* the check of the TTNLWCLI directory
main_ttncli ==
    /\ pc = "ttncli"
    /\ \E cliFound \in BOOLEAN :
          IF cliFound
          THEN /\ pc' = "register"
               /\ UNCHANGED <<nErrors, exitCode>>
          ELSE /\ nErrors' = nErrors + 1
               /\ pc' = "exited"
               /\ exitCode' = 1
    /\ UNCHANGED <<nWarnings, fWerror, fWriteEnable, fPermissive, fRegister,
                   dVariables, is_open, tVersion, ctxVersion, calls, wc,
                   scriptFile, lineNo, xp, scriptRet, exitchecksRet>>
    /\ UNCHANGED <<optBaudrate, nBaudRate, baudrate, io>>
    /\ Twinned

\* ttncomms when -r is given; cli is what the client does: it fails, its
\* output is not the expected JSON, or it reports the created device
main_register ==
    /\ pc = "register"
    /\ IF ~fRegister
       THEN /\ pc' = "doscript"
            /\ UNCHANGED <<nErrors, exitCode, dVariables>>
       ELSE \E cli \in {"fails", "garbled", "created"} :
               LET c == checkttnvars(dVariables)
               IN  IF c.out = "raised" \/ (c.out = "ok" /\ cli = "garbled")
                   THEN /\ dVariables' = c.d
                        /\ pc' = "raised"
                        /\ exitCode' = 1
                        /\ UNCHANGED nErrors
                   ELSE IF c.out = "fatal" \/ cli = "fails"
                   THEN /\ dVariables' = c.d
                        /\ nErrors' = nErrors + 1
                        /\ pc' = "exited"
                        /\ exitCode' = 1
                   ELSE /\ dVariables' =
                               SetVar(SetVar(SetVar(c.d, sAPPEUI, c.d[sJOINEUI].v),
                                             sDEVEUI, c.d[sSYSEUI].v),
                                      sAPPKEY, sReportedKey)
                        /\ pc' = "doscript"
                        /\ UNCHANGED <<nErrors, exitCode>>
    /\ UNCHANGED <<nWarnings, fWerror, fWriteEnable, fPermissive, fRegister,
                   is_open, tVersion, ctxVersion, calls, wc, scriptFile,
                   lineNo, xp, scriptRet, exitchecksRet>>
    /\ UNCHANGED <<optBaudrate, nBaudRate, baudrate, io>>
    /\ Twinned

(***************************************************************************)
(* doscript, closeport and the end of __main__.                            *)
(***************************************************************************)
\* doscript that takes a file it cannot read, or an empty one, for a script
\* with nothing to do
doscript_open_lenient ==
    /\ pc = "doscript"
    /\ IF ~scriptFile.given
       THEN /\ pc' = "closeport"
            /\ UNCHANGED <<nErrors, scriptRet, lineNo>>
       ELSE IF ~scriptFile.readable \/ scriptFile.lines = <<>>
       THEN /\ scriptRet' = PyBool(TRUE)
            /\ pc' = "closeport"
            /\ UNCHANGED <<nErrors, lineNo>>
       ELSE /\ lineNo' = 1
            /\ pc' = "doscript_line"
            /\ UNCHANGED <<nErrors, scriptRet>>
    /\ UNCHANGED <<exitCode, nWarnings, fWerror, fWriteEnable, fPermissive,
                   fRegister, dVariables, is_open, tVersion, ctxVersion, calls,
                   wc, scriptFile, xp, exitchecksRet>>
    /\ UNCHANGED <<optBaudrate, nBaudRate, baudrate, io>>
    /\ Twinned

\* doscript up to the loop over the lines
doscript_open ==
    /\ pc = "doscript"
    /\ IF ~scriptFile.given
       THEN /\ pc' = "closeport"
            /\ UNCHANGED <<nErrors, scriptRet, lineNo>>
       ELSE IF ~scriptFile.readable \/ scriptFile.lines = <<>>
       THEN /\ nErrors' = nErrors + 1
            /\ scriptRet' = PyBool(FALSE)
            /\ pc' = "closeport"
            /\ UNCHANGED lineNo
       ELSE /\ lineNo' = 1
            /\ pc' = "doscript_line"
            /\ UNCHANGED <<nErrors, scriptRet>>
    /\ UNCHANGED <<exitCode, nWarnings, fWerror, fWriteEnable, fPermissive,
                   fRegister, dVariables, is_open, tVersion, ctxVersion, calls,
                   wc, scriptFile, xp, exitchecksRet>>
    /\ UNCHANGED <<optBaudrate, nBaudRate, baudrate, io>>
    /\ Twinned

\* one turn of the loop of doscript, on line lineNo of the file
doscript_line ==
    /\ pc = "doscript_line"
    /\ LET sLine == StripComment(StripNewline(scriptFile.lines[lineNo]))
           e == expand(sLine, dVariables)
           goOn == /\ lineNo' = IF lineNo < Len(scriptFile.lines)
                                THEN lineNo + 1 ELSE lineNo
                   /\ pc' = IF lineNo < Len(scriptFile.lines)
                            THEN "doscript_line" ELSE "closeport"
                   /\ scriptRet' = IF lineNo < Len(scriptFile.lines)
                                   THEN scriptRet ELSE PyBool(TRUE)
                   /\ UNCHANGED exitCode
       IN  /\ xp' = XpRec(sLine, e)
           /\ IF e.raised
              THEN /\ pc' = "raised"
                   /\ exitCode' = 1
                   /\ UNCHANGED <<nErrors, calls, wc, lineNo, scriptRet>>
              ELSE IF IsBlank(e.ret) \/ ~fWriteEnable
              THEN /\ nErrors' = nErrors + e.errs
                   /\ goOn
                   /\ UNCHANGED <<calls, wc>>
              ELSE \E dev \in ScriptDevs :
                      LET sCommand == StripNewline(e.ret) \o <<"\n">>
                          r == writecommand(sCommand, dev)
                      IN  /\ calls' = Append(calls, CallRec(sCommand, r))
                          /\ wc' = WcRec(sCommand, dev, r)
                          /\ IF LineFails(r.ret)
                             THEN /\ nErrors' = nErrors + e.errs + r.errs + 1
                                  /\ scriptRet' = PyBool(FALSE)
                                  /\ pc' = "closeport"
                                  /\ UNCHANGED <<lineNo, exitCode>>
                             ELSE /\ nErrors' = nErrors + e.errs + r.errs
                                  /\ goOn
    /\ UNCHANGED <<nWarnings, fWerror, fWriteEnable, fPermissive, fRegister,
                   dVariables, is_open, tVersion, ctxVersion, scriptFile,
                   exitchecksRet>>
    /\ UNCHANGED <<optBaudrate, nBaudRate, baudrate, io>>
    /\ Twinned

\* closeport, and the error __main__ adds when it returns None
closeport ==
    /\ pc = "closeport"
    /\ IF is_open
       THEN /\ is_open' = FALSE
            /\ UNCHANGED nErrors
       ELSE /\ nErrors' = nErrors + 2
            /\ UNCHANGED is_open
    /\ pc' = "exitchecks"
    /\ UNCHANGED <<exitCode, nWarnings, fWerror, fWriteEnable, fPermissive,
                   fRegister, dVariables, tVersion, ctxVersion, calls, wc,
                   scriptFile, lineNo, xp, scriptRet, exitchecksRet>>
    /\ UNCHANGED <<optBaudrate, nBaudRate, baudrate, io>>
    /\ Twinned

\* AppContext.getnumerrors
getnumerrors == nErrors + (IF fWerror THEN nWarnings ELSE 0)

\* exitchecks that moves the warnings it counted into the error count
exitchecks_promoting ==
    /\ pc = "exitchecks"
    /\ IF getnumerrors > 0
       THEN /\ nErrors' = getnumerrors + 1
            /\ exitchecksRet' = PyInt(1)
       ELSE /\ exitchecksRet' = PyInt(0)
            /\ UNCHANGED nErrors
    /\ pc' = "exited"
    /\ exitCode' = 0
    /\ UNCHANGED <<nWarnings, fWerror, fWriteEnable, fPermissive, fRegister,
                   dVariables, is_open, tVersion, ctxVersion, calls, wc,
                   scriptFile, lineNo, xp, scriptRet>>
    /\ UNCHANGED <<optBaudrate, nBaudRate, baudrate, io>>
    /\ Twinned

\* exitchecks; __main__ drops its result and ends
exitchecks ==
    /\ pc = "exitchecks"
    /\ IF getnumerrors > 0
       THEN /\ nErrors' = nErrors + 1
            /\ exitchecksRet' = PyInt(1)
       ELSE /\ exitchecksRet' = PyInt(0)
            /\ UNCHANGED nErrors
    /\ pc' = "exited"
    /\ exitCode' = 0
    /\ UNCHANGED <<nWarnings, fWerror, fWriteEnable, fPermissive, fRegister,
                   dVariables, is_open, tVersion, ctxVersion, calls, wc,
                   scriptFile, lineNo, xp, scriptRet>>
    /\ UNCHANGED <<optBaudrate, nBaudRate, baudrate, io>>
    /\ Twinned

Next ==
    \/ main_args
    \/ openport
    \/ setechooff
    \/ checkcomms_getversion
    \/ checkcomms_getsyseui
    \/ main_ttncli
    \/ main_register
    \/ doscript_open
    \/ doscript_line
    \/ closeport
    \/ exitchecks

Spec == Init /\ [][Next]_vars

(***************************************************************************)
(* The script interpreter on every bounded script, started from the state  *)
(* __main__ is in when the session went through: port open, echo off,      *)
(* version and syseui known, no error so far.                              *)
(***************************************************************************)
SessionExchanges ==
    <<WcRec(sEchoOffCommand, DevBytes(tOK), writecommand(sEchoOffCommand, DevBytes(tOK))),
      WcRec(sVersionCommand, DevBytes(tVersionB), writecommand(sVersionCommand, DevBytes(tVersionB))),
      WcRec(sEuiCommand, DevBytes(tEuiUpper), writecommand(sEuiCommand, DevBytes(tEuiUpper)))>>

SessionCalls ==
    [i \in 1..3 |-> [cmd |-> SessionExchanges[i].cmd, wrote |-> TRUE,
                     kind |-> SessionExchanges[i].ret.t]]

SessionVersion == getversion(SessionExchanges[2].ret).ret

SessionVariables ==
    [DefaultVariables EXCEPT
        ![sSYSEUI] = PyStr(upper(getsyseui(SessionExchanges[3].ret, FALSE).ret.v))]

InitScript ==
    /\ pc = "doscript"
    /\ exitCode = 0
    /\ nWarnings = 0
    /\ nErrors = 0
    /\ fWerror = FALSE
    /\ fWriteEnable \in BOOLEAN
    /\ fPermissive = FALSE
    /\ fRegister = FALSE
    /\ dVariables \in {SessionVariables,
                       ApplyVars(SessionVariables, <<vAppEui>>)}
    /\ is_open = TRUE
    /\ tVersion = SessionVersion
    /\ ctxVersion = SessionVersion
    /\ calls = SessionCalls
    /\ wc = SessionExchanges[3]
    /\ scriptFile \in BoundedFiles
    /\ lineNo = 0
    /\ xp = NoExpand
    /\ scriptRet = PyNone
    /\ exitchecksRet = PyNone
    /\ optBaudrate = PyNone
    /\ nBaudRate = PyInt(nBaudRateDefault)
    /\ baudrate = PyInt(nBaudRateDefault)
    /\ io = NoIo
    /\ twin = NoTwin

NextScript ==
    \/ doscript_open
    \/ doscript_line
    \/ closeport
    \/ exitchecks

SpecScript == InitScript /\ [][NextScript]_vars

(***************************************************************************)
(* The run from the call of openport, on a handle that is closed, as       *)
(* __main__ leaves it, or already open.                                    *)
(***************************************************************************)
InitPort ==
    /\ pc = "openport"
    /\ exitCode = 0
    /\ nWarnings = 0
    /\ nErrors = 0
    /\ fWerror = FALSE
    /\ fWriteEnable \in BOOLEAN
    /\ fPermissive \in BOOLEAN
    /\ fRegister = FALSE
    /\ dVariables = DefaultVariables
    /\ is_open \in BOOLEAN
    /\ tVersion = PyNone
    /\ ctxVersion = PyNone
    /\ calls = <<>>
    /\ wc = NoExchange
    /\ scriptFile \in RunFiles
    /\ lineNo = 0
    /\ xp = NoExpand
    /\ scriptRet = PyNone
    /\ exitchecksRet = PyNone
    /\ optBaudrate = PyNone
    /\ nBaudRate = PyInt(nBaudRateDefault)
    /\ baudrate = PyInt(nBaudRateDefault)
    /\ io = NoIo
    /\ twin = NoTwin

NextPort ==
    \/ openport
    \/ setechooff
    \/ checkcomms_getversion
    \/ checkcomms_getsyseui
    \/ main_ttncli
    \/ main_register
    \/ doscript_open
    \/ doscript_line
    \/ closeport
    \/ exitchecks

SpecPort == InitPort /\ [][NextPort]_vars

(***************************************************************************)
(* Two runs that differ in -Werror only, one after the other, from the     *)
(* state __main__ is in when echo is off and the version is known.  The    *)
(* first run is kept in the history; the second starts from the same state *)
(* with the flag inverted and sees, step by step, the same behaviour of    *)
(* the device and of the TTN client.                                       *)
(***************************************************************************)
InitTwin ==
    /\ pc = "getsyseui"
    /\ exitCode = 0
    /\ nWarnings = 0
    /\ nErrors = 0
    /\ fWerror \in BOOLEAN
    /\ fWriteEnable = TRUE
    /\ fPermissive \in BOOLEAN
    /\ fRegister = FALSE
    /\ dVariables = DefaultVariables
    /\ is_open = TRUE
    /\ tVersion = SessionVersion
    /\ ctxVersion = PyNone
    /\ calls = SubSeq(SessionCalls, 1, 2)
    /\ wc = SessionExchanges[2]
    /\ scriptFile \in RunFiles
    /\ lineNo = 0
    /\ xp = NoExpand
    /\ scriptRet = PyNone
    /\ exitchecksRet = PyNone
    /\ optBaudrate = PyNone
    /\ nBaudRate = PyInt(nBaudRateDefault)
    /\ baudrate = PyInt(nBaudRateDefault)
    /\ io = NoIo
    /\ twin = [on |-> TRUE, run |-> 1, at |-> 1, log |-> <<Snapshot>>]

\* the first run is over: the second starts, with the other value of -Werror
twin_restart ==
    /\ twin.on
    /\ twin.run = 1
    /\ pc \in {"exited", "raised"}
    /\ pc' = twin.log[1].pc
    /\ exitCode' = twin.log[1].exitCode
    /\ nWarnings' = twin.log[1].nWarnings
    /\ nErrors' = twin.log[1].nErrors
    /\ fWerror' = ~twin.log[1].fWerror
    /\ fWriteEnable' = twin.log[1].fWriteEnable
    /\ fPermissive' = twin.log[1].fPermissive
    /\ fRegister' = twin.log[1].fRegister
    /\ dVariables' = twin.log[1].dVariables
    /\ is_open' = twin.log[1].is_open
    /\ tVersion' = twin.log[1].tVersion
    /\ ctxVersion' = twin.log[1].ctxVersion
    /\ calls' = twin.log[1].calls
    /\ wc' = twin.log[1].wc
    /\ scriptFile' = twin.log[1].scriptFile
    /\ lineNo' = twin.log[1].lineNo
    /\ xp' = twin.log[1].xp
    /\ scriptRet' = twin.log[1].scriptRet
    /\ exitchecksRet' = twin.log[1].exitchecksRet
    /\ optBaudrate' = twin.log[1].optBaudrate
    /\ nBaudRate' = twin.log[1].nBaudRate
    /\ baudrate' = twin.log[1].baudrate
    /\ UNCHANGED io
    /\ twin' = [twin EXCEPT !.run = 2, !.at = 1]

NextTwin ==
    \/ checkcomms_getsyseui
    \/ main_ttncli
    \/ main_register
    \/ doscript_open
    \/ doscript_line
    \/ closeport
    \/ exitchecks
    \/ twin_restart

SpecTwin == InitTwin /\ [][NextTwin]_vars

(***************************************************************************)
(* The start of __main__ up to the opening of the port, for every -baud    *)
(* option.                                                                 *)
(***************************************************************************)
InitBaud ==
    /\ InitContext
    /\ scriptFile \in RunFiles
    /\ optBaudrate \in BaudOptions

NextBaud ==
    \/ main_args
    \/ openport

SpecBaud == InitBaud /\ [][NextBaud]_vars

(***************************************************************************)
(* One exchange on an open port, for every bounded text the read can       *)
(* return.                                                                 *)
(***************************************************************************)
InitWriteCommand ==
    /\ pc = "writecommand"
    /\ exitCode = 0
    /\ nWarnings = 0
    /\ nErrors = 0
    /\ fWerror = FALSE
    /\ fWriteEnable = TRUE
    /\ fPermissive = FALSE
    /\ fRegister = FALSE
    /\ dVariables = DefaultVariables
    /\ is_open = TRUE
    /\ tVersion = PyNone
    /\ ctxVersion = PyNone
    /\ calls = <<>>
    /\ wc = NoExchange
    /\ scriptFile = ScriptFile(FALSE, FALSE, <<>>)
    /\ lineNo = 0
    /\ xp = NoExpand
    /\ scriptRet = PyNone
    /\ exitchecksRet = PyNone
    /\ optBaudrate = PyNone
    /\ nBaudRate = PyInt(nBaudRateDefault)
    /\ baudrate = PyInt(nBaudRateDefault)
    /\ io = NoIo
    /\ twin = NoTwin

writecommand_call ==
    /\ pc = "writecommand"
    /\ \E dev \in BoundedDevs :
          LET r == writecommand(sVersionCommand, dev)
          IN  /\ calls' = Append(calls, CallRec(sVersionCommand, r))
              /\ wc' = WcRec(sVersionCommand, dev, r)
              /\ nErrors' = nErrors + r.errs
    /\ pc' = "returned"
    /\ UNCHANGED <<exitCode, nWarnings, fWerror, fWriteEnable, fPermissive,
                   fRegister, dVariables, is_open, tVersion, ctxVersion,
                   scriptFile, lineNo, xp, scriptRet, exitchecksRet>>
    /\ UNCHANGED <<optBaudrate, nBaudRate, baudrate, io>>
    /\ Twinned

NextWriteCommand == writecommand_call

SpecWriteCommand == InitWriteCommand /\ [][NextWriteCommand]_vars

(***************************************************************************)
(* getversion on payloads of Key: Value lines, the Board and the           *)
(* Platform-Version lines at every position.                               *)
(***************************************************************************)
\* the most lines of other keys before, and between, the two required lines
MaxOtherLines == 9

lBoardLine == <<"B","o","a","r","d",":"," ","b","\n">>

lPlatformLine == <<"P","l","a","t","f","o","r","m","-","V","e","r","s","i","o","n",":"," ","3","\n">>

lOtherLine == <<"k",":"," ","v","\n">>

RECURSIVE OtherLines(_)
OtherLines(n) == IF n = 0 THEN <<>> ELSE lOtherLine \o OtherLines(n - 1)

\* payloads of a successful "system version": the two required lines in
\* either order, lines of another key before and between them
VersionPayloads ==
    {OtherLines(nm[1]) \o keys[1] \o OtherLines(nm[2]) \o keys[2] :
        nm \in {x \in (0..MaxOtherLines) \X (0..MaxOtherLines) :
                   x[1] + x[2] <= MaxOtherLines},
        keys \in {<<lBoardLine, lPlatformLine>>, <<lPlatformLine, lBoardLine>>}}

InitVersion ==
    /\ pc = "getversion"
    /\ exitCode = 0
    /\ nWarnings = 0
    /\ nErrors = 0
    /\ fWerror = FALSE
    /\ fWriteEnable = TRUE
    /\ fPermissive = FALSE
    /\ fRegister = FALSE
    /\ dVariables = DefaultVariables
    /\ is_open = TRUE
    /\ tVersion = PyNone
    /\ ctxVersion = PyNone
    /\ calls = SubSeq(SessionCalls, 1, 1)
    /\ \E sVersion \in VersionPayloads :
          wc = [cmd |-> sVersionCommand, dev |-> DevBytes(sVersion \o tOK),
                ret |-> PyStr(sVersion)]
    /\ scriptFile = ScriptFile(FALSE, FALSE, <<>>)
    /\ lineNo = 0
    /\ xp = NoExpand
    /\ scriptRet = PyNone
    /\ exitchecksRet = PyNone
    /\ optBaudrate = PyNone
    /\ nBaudRate = PyInt(nBaudRateDefault)
    /\ baudrate = PyInt(nBaudRateDefault)
    /\ io = NoIo
    /\ twin = NoTwin

\* getversion, from the result of its exchange on
getversion_call ==
    /\ pc = "getversion"
    /\ LET g == getversion(wc.ret)
       IN  /\ tVersion' = g.ret
           /\ nErrors' = nErrors + g.errs
           /\ pc' = IF g.raised THEN "raised" ELSE "returned"
           /\ exitCode' = IF g.raised THEN 1 ELSE exitCode
    /\ UNCHANGED <<nWarnings, fWerror, fWriteEnable, fPermissive, fRegister,
                   dVariables, is_open, ctxVersion, calls, wc, scriptFile,
                   lineNo, xp, scriptRet, exitchecksRet>>
    /\ UNCHANGED <<optBaudrate, nBaudRate, baudrate, io>>
    /\ Twinned

NextVersion == getversion_call

SpecVersion == InitVersion /\ [][NextVersion]_vars

(***************************************************************************)
(* The steps of writecommand on the port, the device sending bytes at any  *)
(* time.                                                                   *)
(***************************************************************************)
\* calls of writecommand in a run
MaxCalls == 2

\* chunks of bytes the device sends during one call
MaxArrivals == 3

\* comPort.read(1024)
nReadSize == 1024

InitExchange ==
    /\ pc = "writecommand"
    /\ exitCode = 0
    /\ nWarnings = 0
    /\ nErrors = 0
    /\ fWerror = FALSE
    /\ fWriteEnable = TRUE
    /\ fPermissive = FALSE
    /\ fRegister = FALSE
    /\ dVariables = DefaultVariables
    /\ is_open = TRUE
    /\ tVersion = PyNone
    /\ ctxVersion = PyNone
    /\ calls = <<>>
    /\ wc = NoExchange
    /\ scriptFile = ScriptFile(FALSE, FALSE, <<>>)
    /\ lineNo = 0
    /\ xp = NoExpand
    /\ scriptRet = PyNone
    /\ exitchecksRet = PyNone
    /\ optBaudrate = PyNone
    /\ nBaudRate = PyInt(nBaudRateDefault)
    /\ baudrate = PyInt(nBaudRateDefault)
    /\ io = NoIo
    /\ twin = NoTwin

NotIo ==
    <<pc, exitCode, nWarnings, nErrors, fWerror, fWriteEnable, fPermissive,
      fRegister, dVariables, is_open, tVersion, ctxVersion, calls, wc,
      scriptFile, lineNo, xp, scriptRet, exitchecksRet, optBaudrate,
      nBaudRate, baudrate, twin>>

Op(name) == [op |-> name, call |-> io.call]

Buffered(b) == b.pre + b.mid + b.post

\* the device sends a byte, or as many as one read can take; they count by
\* the point the call is at
device_sends ==
    /\ io.arrivals < MaxArrivals
    /\ \E n \in {1, nReadSize} :
          io' = [io EXCEPT
                   !.arrivals = @ + 1,
                   !.buf = IF io.at \in {"idle", "in_waiting"}
                           THEN [@ EXCEPT !.pre = @ + n]
                           ELSE IF io.at = "write"
                           THEN [@ EXCEPT !.mid = @ + n]
                           ELSE [@ EXCEPT !.post = @ + n]]
    /\ UNCHANGED NotIo

\* writecommand is called: what the last call left buffered was there before
writecommand_enter ==
    /\ io.at = "idle"
    /\ io.call < MaxCalls
    /\ io' = [io EXCEPT !.at = "in_waiting", !.call = @ + 1, !.arrivals = 0,
                        !.buf = [pre |-> Buffered(io.buf), mid |-> 0, post |-> 0],
                        !.got = NoBytes]
    /\ UNCHANGED NotIo

\* the test of in_waiting, skipped
writecommand_in_waiting_skipped ==
    /\ io.at = "in_waiting"
    /\ io' = [io EXCEPT !.at = "write"]
    /\ UNCHANGED NotIo

\* if comPort.in_waiting != 0: comPort.reset_input_buffer()
writecommand_in_waiting ==
    /\ io.at = "in_waiting"
    /\ io' = IF Buffered(io.buf) # 0
             THEN [io EXCEPT !.at = "write", !.buf = NoBytes,
                             !.ops = Append(@, Op("reset_input_buffer"))]
             ELSE [io EXCEPT !.at = "write"]
    /\ UNCHANGED NotIo

\* comPort.write(sCommand.encode()): it raises and writecommand returns, or
\* the command is written
writecommand_write ==
    /\ io.at = "write"
    /\ \E raises \in BOOLEAN :
          io' = IF raises
                THEN [io EXCEPT !.at = "idle",
                                !.ops = Append(@, Op("write raises"))]
                ELSE [io EXCEPT !.at = "read", !.ops = Append(@, Op("write"))]
    /\ UNCHANGED NotIo

\* the bytes a read of n takes from the buffer, the oldest first
Take(b, n) ==
    LET pre == IF b.pre < n THEN b.pre ELSE n
        mid == IF b.mid < n - pre THEN b.mid ELSE n - pre
        post == IF b.post < n - pre - mid THEN b.post ELSE n - pre - mid
    IN  [pre |-> pre, mid |-> mid, post |-> post]

Minus(b, t) ==
    [pre |-> b.pre - t.pre, mid |-> b.mid - t.mid, post |-> b.post - t.post]

\* comPort.read(1024) and the decoding of what it returns: one of them
\* raises and writecommand returns, or the text is there
writecommand_read ==
    /\ io.at = "read"
    /\ \E raises \in BOOLEAN :
          io' = IF raises
                THEN [io EXCEPT !.at = "idle",
                                !.ops = Append(@, Op("read raises"))]
                ELSE [io EXCEPT !.at = "reset",
                                !.got = Take(io.buf, nReadSize),
                                !.buf = Minus(@, Take(io.buf, nReadSize)),
                                !.ops = Append(@, Op("read"))]
    /\ UNCHANGED NotIo

\* comPort.reset_input_buffer() after the read; the rest of writecommand
\* works on the text and returns
writecommand_reset ==
    /\ io.at = "reset"
    /\ io' = [io EXCEPT !.at = "idle", !.buf = NoBytes,
                        !.ops = Append(@, Op("reset_input_buffer"))]
    /\ UNCHANGED NotIo

NextExchange ==
    \/ device_sends
    \/ writecommand_enter
    \/ writecommand_in_waiting
    \/ writecommand_write
    \/ writecommand_read
    \/ writecommand_reset

SpecExchange == InitExchange /\ [][NextExchange]_vars

(***************************************************************************)
(* One call of expand, for every bounded line.                             *)
(***************************************************************************)
sX == <<"X">>

sa == <<"a">>

ExpandVariables ==
    {DefaultVariables,
     (sX :> PyStr(<<"v">>)) @@ (sa :> PyNone) @@ DefaultVariables}

InitExpand ==
    /\ pc = "expand"
    /\ exitCode = 0
    /\ nWarnings = 0
    /\ nErrors = 0
    /\ fWerror = FALSE
    /\ fWriteEnable = TRUE
    /\ fPermissive = FALSE
    /\ fRegister = FALSE
    /\ dVariables \in ExpandVariables
    /\ is_open = TRUE
    /\ tVersion = PyNone
    /\ ctxVersion = PyNone
    /\ calls = <<>>
    /\ wc = NoExchange
    /\ scriptFile = ScriptFile(FALSE, FALSE, <<>>)
    /\ lineNo = 0
    /\ xp = NoExpand
    /\ scriptRet = PyNone
    /\ exitchecksRet = PyNone
    /\ optBaudrate = PyNone
    /\ nBaudRate = PyInt(nBaudRateDefault)
    /\ baudrate = PyInt(nBaudRateDefault)
    /\ io = NoIo
    /\ twin = NoTwin

expand_call ==
    /\ pc = "expand"
    /\ \E sLine \in BoundedLines :
          LET e == expand(sLine, dVariables)
          IN  /\ xp' = XpRec(sLine, e)
              /\ nErrors' = nErrors + e.errs
              /\ pc' = IF e.raised THEN "raised" ELSE "returned"
              /\ exitCode' = IF e.raised THEN 1 ELSE exitCode
    /\ UNCHANGED <<nWarnings, fWerror, fWriteEnable, fPermissive, fRegister,
                   dVariables, is_open, tVersion, ctxVersion, calls, wc,
                   scriptFile, lineNo, scriptRet, exitchecksRet>>
    /\ UNCHANGED <<optBaudrate, nBaudRate, baudrate, io>>
    /\ Twinned

NextExpand == expand_call

SpecExpand == InitExpand /\ [][NextExpand]_vars

(***************************************************************************)
(* Properties.                                                             *)
(***************************************************************************)
\* the calls of writecommand made by doscript
ScriptCalls == SubSeq(calls, Len(SessionCalls) + 1, Len(calls))

\* the commands c1..cN of a script: for each line that is not blank and not
\* a comment once expanded, the expanded line and a newline
RECURSIVE ExecCommands(_, _)
ExecCommands(lines, d) ==
    IF Len(lines) = 0 THEN <<>>
    ELSE LET e == expand(StripComment(StripNewline(lines[1])), d)
         IN  IF e.raised THEN <<>>
             ELSE IF IsBlank(e.ret) THEN ExecCommands(Tail(lines), d)
             ELSE <<StripNewline(e.ret) \o <<"\n">> >> \o ExecCommands(Tail(lines), d)

\* C1: with writes enabled, the calls doscript makes are the commands of the
\* script in file order, a Failure can only be the last of them, and once a
\* line's exchange is a Failure doscript has returned False
ScriptAbortOnFailure ==
    (fWriteEnable /\ scriptFile.readable /\ Len(ScriptCalls) > 0) =>
        LET cs == ExecCommands(scriptFile.lines, dVariables)
            sc == ScriptCalls
        IN  /\ Len(sc) <= Len(cs)
            /\ \A i \in 1..Len(sc) :
                  /\ sc[i].cmd = cs[i]
                  /\ sc[i].kind = "tuple" =>
                        /\ i = Len(sc)
                        /\ pc \in {"closeport", "exitchecks", "exited"}
                        /\ scriptRet = PyBool(FALSE)

\* a script of two commands whose first exchange failed: only the first was
\* sent, and the run ended
ScriptAbortWitness ==
    /\ fWriteEnable
    /\ Len(ExecCommands(scriptFile.lines, dVariables)) = 2
    /\ Len(ScriptCalls) = 1
    /\ ScriptCalls[1].kind = "tuple"
    /\ scriptRet = PyBool(FALSE)
    /\ pc = "exited"

EndsWith(s, suffix) ==
    /\ Len(s) >= Len(suffix)
    /\ SubSeq(s, Len(s) - Len(suffix) + 1, Len(s)) = suffix

\* the payload P of a text read as P, a newline, OK and a newline
PayloadOf(data) == SubSeq(data, 1, Len(data) - Len(tOK))

\* C2 as stated: whatever the payload P, reading P, newline, OK, newline gives
\* Success carrying exactly P
ParserRoundTrip ==
    (wc.dev.k = "bytes" /\ EndsWith(wc.dev.data, tOK)) =>
        wc.ret = PyStr(PayloadOf(wc.dev.data))

\* no line of the text is OK and none begins with ?
NoTerminatorLine(data) ==
    \A i \in 1..Len(splitlines(data)) :
        /\ splitlines(data)[i] # sOK
        /\ (Len(splitlines(data)[i]) = 0 \/ splitlines(data)[i][1] # "?")

\* C3 as stated: a text with no terminator line gives Failure "timed out"
TimeoutClassification ==
    (wc.dev.k = "bytes" /\ NoTerminatorLine(wc.dev.data)) =>
        (IsFailureTuple(wc.ret) /\ wc.ret.code = sTimedOut)

\* C4 as stated: when the write or the read raises, writecommand returns the
\* Failure its callers test for
TransportFailureIsFailure ==
    wc.dev.k \in {"write_raises", "read_raises"} => IsFailureTuple(wc.ret)

sAppEuiLine == <<"s","y","s","t","e","m"," ","c","o","n","f","i","g","u","r","e"," ","a","p","p","e","u","i"," ","$","{","A","P","P","E","U","I","}">>

sAppEuiExpanded == <<"s","y","s","t","e","m"," ","c","o","n","f","i","g","u","r","e"," ","a","p","p","e","u","i"," ","{","A","P","P","E","U","I","}">>

\* C5 as stated: the line with ${APPEUI} unset expands to the placeholder, one
\* error is counted, and with writes enabled the expanded line is sent
UnsetVariableExpands ==
    (xp.called /\ xp.line = sAppEuiLine /\ dVariables[sAPPEUI] = PyNone) =>
        /\ ~xp.raised
        /\ xp.ret = sAppEuiExpanded
        /\ nErrors >= 1
        /\ fWriteEnable => calls[Len(calls)].cmd = sAppEuiExpanded \o <<"\n">>

\* a line made of lowercase letters and spaces, then a ${...} that ends it
IsMacroForm(sLine) ==
    \E i \in 1..(Len(sLine) - 3) :
        /\ \A k \in 1..i : (IsLower(sLine[k]) \/ sLine[k] = " ")
        /\ sLine[i + 1] = "$"
        /\ sLine[i + 2] = "{"
        /\ sLine[Len(sLine)] = "}"

FormPrefixLen(sLine) == CHOOSE i \in 1..(Len(sLine) - 3) : sLine[i + 1] = "$"

FormPrefix(sLine) == SubSeq(sLine, 1, FormPrefixLen(sLine))

FormName(sLine) == SubSeq(sLine, FormPrefixLen(sLine) + 3, Len(sLine) - 1)

\* the errors one exchange of a script line adds: one when the port raises or
\* no terminator is found, and one more from doscript when the line fails
ExchangeErrors(w) ==
    (IF w.dev.k \in {"write_raises", "read_raises"} THEN 1
     ELSE IF IsFailureTuple(w.ret) /\ w.ret.msg = PyNone THEN 1 ELSE 0)
    + (IF IsFailureTuple(w.ret) THEN 1 ELSE 0)

\* doscript is at a line of the macro form whose name is no key of dVariables
AtUnknownMacro ==
    /\ pc = "doscript_line"
    /\ IsMacroForm(StripComment(StripNewline(scriptFile.lines[lineNo])))
    /\ FormName(StripComment(StripNewline(scriptFile.lines[lineNo])))
           \notin DOMAIN dVariables

UpperHexDigits ==
    {"0","1","2","3","4","5","6","7","8","9","A","B","C","D","E","F"}

\* C8 as stated: after a successful answer with a hyphen-grouped EUI, SYSEUI
\* is exactly 16 upper-case hex digits
EuiNormalized ==
    (/\ pc = "ttncli"
     /\ wc.cmd = sEuiCommand
     /\ wc.dev \in {DevBytes(tEuiUpper), DevBytes(tEuiMixed)}) =>
        /\ dVariables[sSYSEUI].t = "str"
        /\ Len(dVariables[sSYSEUI].v) = 16
        /\ \A i \in 1..Len(dVariables[sSYSEUI].v) :
              dVariables[sSYSEUI].v[i] \in UpperHexDigits

sBoardValue == <<"b","o","a","r","d">>

sPlatformValue == <<"3",".","2">>

\* C9 as stated: on the text of the scenario the exchange is a Success and
\* getversion returns Board "board" and Platform-Version "3.2"
VersionScenario ==
    (wc.cmd = sVersionCommand /\ wc.dev = DevBytes(tVersionA)) =>
        /\ wc.ret.t = "str"
        /\ tVersion.t = "dict"
        /\ sBoard \in DOMAIN tVersion.d
        /\ tVersion.d[sBoard] = sBoardValue
        /\ tVersion.d[sPlatformVersion] = sPlatformValue

\* C9 amended: on the text of the scenario the exchange is a Success, but only
\* Platform-Version is found: getversion counts one error and returns None;
\* with "Board: board" as the first line it returns both fields
VersionScenarioAmended ==
    [][/\ (pc = "getversion" /\ wc'.dev = DevBytes(tVersionA)) =>
             /\ wc'.ret = PyStr(SubSeq(tVersionA, 1, Len(tVersionA) - Len(tOK)))
             /\ VersionPairs(wc'.ret.v) = <<(<<sPlatformVersion, sPlatformValue>>)>>
             /\ tVersion' = PyNone
             /\ nErrors' = nErrors + 1
             /\ pc' = "ttncli"
       /\ (pc = "getversion" /\ wc'.dev = DevBytes(tVersionB)) =>
             /\ wc'.ret.t = "str"
             /\ tVersion' = PyDict((sBoard :> sBoardValue) @@
                                   (sPlatformVersion :> sPlatformValue))
             /\ nErrors' = nErrors
             /\ pc' = "getsyseui"]_vars

\* the version exchange returned the text of the scenario and no version
VersionScenarioWitness ==
    /\ wc.cmd = sVersionCommand
    /\ wc.dev = DevBytes(tVersionA)
    /\ wc.ret.t = "str"
    /\ tVersion = PyNone
    /\ pc = "ttncli"

\* C10: on \n?2\n the echo-off exchange is Failure("?2", ""), and whenever it
\* is a Failure the process has exited with status 1, an error counted and no
\* other command written
EchoOffFailureIsFatal ==
    /\ (wc.cmd = sEchoOffCommand /\ wc.dev = DevBytes(tErr2)) =>
          wc.ret = PyFailure(<<"?", "2">>, PyStr(<<>>))
    /\ (Len(calls) >= 1 /\ calls[1].cmd = sEchoOffCommand /\ calls[1].kind = "tuple") =>
          /\ pc = "exited"
          /\ exitCode = 1
          /\ nErrors >= 1
          /\ Len(calls) = 1

\* the echo-off exchange read \n?2\n and the process exited with status 1
EchoOffFatalWitness ==
    /\ wc.cmd = sEchoOffCommand
    /\ wc.dev = DevBytes(tErr2)
    /\ IsFailureTuple(wc.ret)
    /\ Len(calls) = 1
    /\ pc = "exited"
    /\ exitCode = 1


\* an answer of the form XX-XX-XX-XX-XX-XX-XX-XX and a newline, X a hex digit
IsHyphenatedEui(s) ==
    /\ Len(s) = 24
    /\ \A i \in 1..23 : IF i % 3 = 0 THEN s[i] = "-" ELSE s[i] \in HexDigits

\* the syseui exchange gave no identity: a device error, a timeout, or a
\* payload that is not a hyphenated EUI
NoIdentity(r) ==
    \/ IsFailureTuple(r)
    \/ r.t = "str" /\ ~IsHyphenatedEui(r.v)

sSentinelUpper == <<"{","S","Y","S","E","U","I","-","N","O","T","-","S","E","T","}">>

\* C11: in permissive mode, when the syseui exchange gives no identity,
\* checkcomms does not end the process: it sets SYSEUI to {SYSEUI-NOT-SET},
\* records the version and the run goes on
PermissiveSentinel ==
    [][(pc = "getsyseui" /\ fPermissive /\ NoIdentity(wc'.ret)) =>
          /\ pc' = "ttncli"
          /\ exitCode' = exitCode
          /\ nErrors' >= nErrors
          /\ dVariables' = [dVariables EXCEPT ![sSYSEUI] = PyStr(sSentinelUpper)]
          /\ ctxVersion' = tVersion]_vars

\* a permissive run whose syseui exchange timed out is executing its script
\* with SYSEUI set to the sentinel
PermissiveSentinelWitness ==
    /\ fPermissive
    /\ pc = "doscript_line"
    /\ Len(calls) = 3
    /\ calls[3].cmd = sEuiCommand
    /\ calls[3].kind = "tuple"
    /\ wc.ret = PyFailure(sTimedOut, PyNone)
    /\ dVariables[sSYSEUI] = PyStr(sSentinelUpper)

\* C12: in non-permissive mode, when the syseui exchange gives no identity,
\* checkcomms ends the process with status 1 after counting an error, and
\* nothing is written once the process has exited
NonPermissiveIdentity ==
    [][/\ (pc = "getsyseui" /\ ~fPermissive /\ NoIdentity(wc'.ret)) =>
             /\ pc' = "exited"
             /\ exitCode' = 1
             /\ nErrors' > nErrors
             /\ dVariables' = dVariables
       /\ pc = "exited" => calls' = calls]_vars

\* a non-permissive run ended with status 1 on a syseui answer that is too
\* short, after the three commands of the session and no other
NonPermissiveWitness ==
    /\ ~fPermissive
    /\ pc = "exited"
    /\ exitCode = 1
    /\ Len(calls) = 3
    /\ wc.cmd = sEuiCommand
    /\ wc.dev = DevBytes(tEuiShort)
    /\ wc.ret.t = "str"

\* the version payload lacks the Board key or the Platform-Version key
LacksVersionKey(r) ==
    /\ r.t = "str"
    /\ ~({sBoard, sPlatformVersion} \subseteq DOMAIN DictOfPairs(VersionPairs(r.v)))

UnknownVersion == PyDict((sBoard :> sUnknown) @@ (sPlatformVersion :> sUnknown))

\* C13 as stated: on a Success whose payload lacks one of the two keys,
\* getversion yields the placeholders for both fields
UnrecognizedVersionPlaceholders ==
    (wc.cmd = sVersionCommand /\ LacksVersionKey(wc.ret)) =>
        /\ pc # "raised"
        /\ tVersion = UnknownVersion

\* C13 amended: on a Success whose payload lacks one of the two keys,
\* getversion counts one error and yields None; it yields the placeholders
\* when the exchange is a Failure, and then counts no error of its own
UnrecognizedVersionNone ==
    [][/\ (pc = "getversion" /\ LacksVersionKey(wc'.ret)) =>
             /\ tVersion' = PyNone
             /\ nErrors' = nErrors + 1
             /\ pc' = "ttncli"
       /\ (pc = "getversion" /\ IsFailureTuple(wc'.ret)) =>
             /\ tVersion' = UnknownVersion
             /\ nErrors' = nErrors + (IF wc'.ret.msg = PyNone THEN 1 ELSE 0)
             /\ pc' = "getsyseui"]_vars

\* the version exchange succeeded with an empty payload and no version came
\* out of it
UnrecognizedVersionWitness ==
    /\ wc.cmd = sVersionCommand
    /\ wc.dev = DevBytes(tOK)
    /\ wc.ret = PyStr(<<>>)
    /\ tVersion = PyNone
    /\ nErrors = 1
    /\ pc = "ttncli"

\* C14 as stated: at the end of main the exit status is non-zero exactly
\* when the accumulated count of getnumerrors is greater than zero
ExitStatusReflectsErrors ==
    (pc = "exited" /\ exitchecksRet # PyNone) =>
        ((exitCode # 0) <=> (getnumerrors > 0))


\* C16 as stated: when the process has exited, on whatever path, the port
\* is closed
PortClosedAtExit ==
    pc = "exited" => ~is_open

\* C18 as stated: no command doscript sends holds a '#' or the text after it
CommentsDiscarded ==
    \A i \in 1..Len(ScriptCalls) :
        \A k \in 1..Len(ScriptCalls[i].cmd) : ScriptCalls[i].cmd[k] # "#"

\* the -s file cannot be opened or holds no line
BadScriptFile ==
    /\ scriptFile.given
    /\ (~scriptFile.readable \/ scriptFile.lines = <<>>)

\* C19: on a file that cannot be opened or is empty, doscript counts one
\* error, sends nothing and returns False without ending the process; main
\* then closes the port and runs the exit checks
MissingOrEmptyScript ==
    [][BadScriptFile =>
          /\ pc = "doscript" =>
                /\ nErrors' = nErrors + 1
                /\ nWarnings' = nWarnings
                /\ calls' = calls
                /\ scriptRet' = PyBool(FALSE)
                /\ exitCode' = exitCode
                /\ pc' = "closeport"
          /\ pc = "closeport" =>
                /\ is_open /\ ~is_open'
                /\ nErrors' = nErrors
                /\ calls' = calls
                /\ pc' = "exitchecks"
          /\ pc = "exitchecks" =>
                /\ exitchecksRet' = PyInt(1)
                /\ calls' = calls
                /\ pc' = "exited"]_vars

\* a run whose script file could not be opened ended after closing the port
\* and running the exit checks, with nothing sent by doscript
MissingScriptWitness ==
    /\ scriptFile = ScriptFile(TRUE, FALSE, <<>>)
    /\ pc = "exited"
    /\ scriptRet = PyBool(FALSE)
    /\ ~is_open
    /\ exitchecksRet = PyInt(1)
    /\ ScriptCalls = <<>>

\* C20 as stated: with writes disabled doscript makes no exchange, and on a
\* readable script that is not empty it goes through every line and
\* returns True
DryRun ==
    (~fWriteEnable /\ scriptFile.readable /\ scriptFile.lines # <<>>) =>
        /\ ScriptCalls = <<>>
        /\ pc # "raised"
        /\ pc \in {"closeport", "exitchecks", "exited"} =>
              /\ scriptRet = PyBool(TRUE)
              /\ lineNo = Len(scriptFile.lines)


Level == twin.log[twin.at]

\* C15 as stated: the second run goes through the same steps and writes the
\* same commands as the first, and ends with the same variables and the same
\* raw counts of errors and warnings
WerrorSameRun ==
    (twin.on /\ twin.run = 2) =>
        /\ fWerror # Level.fWerror
        /\ pc = Level.pc
        /\ calls = Level.calls
        /\ pc \in {"exited", "raised"} =>
              /\ dVariables = Level.dVariables
              /\ nWarnings = Level.nWarnings
              /\ nErrors = Level.nErrors

\* the error exitchecks has logged for itself, once it has run
ExitchecksError(ret) == IF ret = PyInt(1) THEN 1 ELSE 0

\* C15 amended: the second run goes through the same steps as the first,
\* writes the same commands and has at each step the same variables and the
\* same count of warnings; the counts of errors are the same but for the one
\* error exitchecks logs when what it computed is greater than zero
WerrorSameRunButExitchecks ==
    (twin.on /\ twin.run = 2) =>
        /\ fWerror # Level.fWerror
        /\ pc = Level.pc
        /\ calls = Level.calls
        /\ dVariables = Level.dVariables
        /\ nWarnings = Level.nWarnings
        /\ exitCode = Level.exitCode
        /\ is_open = Level.is_open
        /\ nErrors - ExitchecksError(exitchecksRet)
              = Level.nErrors - ExitchecksError(Level.exitchecksRet)
        /\ exitchecksRet = PyNone => nErrors = Level.nErrors

\* both runs ended with one warning and no other error; with -Werror
\* exitchecks computed 1 and logged an error, without it computed 0
WerrorWitness ==
    /\ twin.on
    /\ twin.run = 2
    /\ twin.at = Len(twin.log)
    /\ pc = "exited"
    /\ fWerror
    /\ nWarnings = 1
    /\ exitchecksRet = PyInt(1)
    /\ nErrors = 1
    /\ Level.exitchecksRet = PyInt(0)
    /\ Level.nErrors = 0


\* C21: once the port is configured, a baud rate of 9600 or more given on the
\* command line is the baud rate of the port, and the port has the default
\* rate only if no rate was given (or the default itself was)
BaudRateHonoured ==
    baudrate # PyNone =>
        /\ (optBaudrate # PyNone /\ optBaudrate.v >= nBaudRateMin)
              => baudrate = optBaudrate
        /\ baudrate = PyInt(nBaudRateDefault)
              => optBaudrate \in {PyNone, PyInt(nBaudRateDefault)}

\* C22: with a baud rate below 9600 on the command line, __main__ ends
\* fatally, the port neither configured nor opened
MinimumBaudRateEnforced ==
    (optBaudrate # PyNone /\ optBaudrate.v < nBaudRateMin /\ pc # "main") =>
        /\ pc = "exited"
        /\ exitCode = 1
        /\ baudrate = PyNone
        /\ ~is_open


\* C23: in a run started with -nowrite, no command is written to the port
NoWriteDisablesWrites ==
    (pc # "main" /\ ~fWriteEnable) => Written = <<>>


\* C24: with writes enabled, once the write or the read of a script line's
\* exchange has raised, doscript has stopped at that line and returned False
TransportFailureAbortsScript ==
    (/\ fWriteEnable
     /\ Len(ScriptCalls) > 0
     /\ wc.dev.k \in {"write_raises", "read_raises"}) =>
        /\ scriptRet = PyBool(FALSE)
        /\ pc \in {"closeport", "exitchecks", "exited"}


\* C25: doscript runs, and the registration starts, only once checkcomms has
\* recorded a version with Board and Platform-Version and has set SYSEUI
SessionGating ==
    (pc = "doscript_line" \/ (pc = "register" /\ fRegister)) =>
        /\ ctxVersion.t = "dict"
        /\ {sBoard, sPlatformVersion} \subseteq DOMAIN ctxVersion.d
        /\ dVariables[sSYSEUI].t = "str"


\* the commands of the calls of writecommand so far, in order
Commands == [i \in 1..Len(calls) |-> calls[i].cmd]

OpsOf(c) ==
    LET os == SelectSeq(io.ops, LAMBDA o : o.call = c)
    IN  [i \in 1..Len(os) |-> os[i].op]

\* call c has returned after its write succeeded
WroteAndEnded(c) ==
    /\ c < io.call \/ (c = io.call /\ io.at = "idle")
    /\ \E i \in 1..Len(OpsOf(c)) : OpsOf(c)[i] = "write"

\* between two writes there is one of the operations of ends
WritesApart(ends) ==
    \A i, j \in 1..Len(io.ops) :
        (i < j /\ io.ops[i].op = "write" /\ io.ops[j].op = "write") =>
            \E k \in (i + 1)..(j - 1) : io.ops[k].op \in ends

\* C27 as stated: every call whose write succeeds discards what is buffered,
\* writes, reads and discards again; no command is written before the read
\* of the one before has returned; no byte buffered when the command was
\* written is in the result
OneExchangeAtATime ==
    /\ \A c \in 1..io.call :
          WroteAndEnded(c) =>
              OpsOf(c) \in {<<"reset_input_buffer", "write", "read", "reset_input_buffer">>,
                            <<"write", "read", "reset_input_buffer">>}
    /\ WritesApart({"read"})
    /\ io.got.pre + io.got.mid = 0

\* C27 amended: every call whose write succeeds discards what is buffered
\* when it tests in_waiting, writes, reads and, if the read returns, discards
\* again; no command is written before the read of the one before has
\* returned or raised; no byte buffered when the call tested in_waiting is in
\* the result
OneExchangeAtATimeRead ==
    /\ \A c \in 1..io.call :
          WroteAndEnded(c) =>
              OpsOf(c) \in {<<"reset_input_buffer", "write", "read", "reset_input_buffer">>,
                            <<"write", "read", "reset_input_buffer">>,
                            <<"reset_input_buffer", "write", "read raises">>,
                            <<"write", "read raises">>}
    /\ WritesApart({"read", "read raises"})
    /\ io.got.pre = 0

\* the read of the first call raised while the device was answering; the
\* second call discarded that answer, wrote, read as much as one read takes
\* of its own answer, and discarded the rest
OneExchangeWitness ==
    /\ io.call = 2
    /\ io.at = "idle"
    /\ OpsOf(1) = <<"write", "read raises">>
    /\ OpsOf(2) = <<"reset_input_buffer", "write", "read", "reset_input_buffer">>
    /\ io.got = [pre |-> 0, mid |-> 0, post |-> nReadSize]


\* the last line of a text
StatusLine(data) == splitlines(data)[Len(splitlines(data))]

\* C28: writecommand returns a Success only when the status line is exactly
\* OK; when the status line begins with ?, it returns a Failure whose code is
\* that line and whose message is the text before it
StatusClassification ==
    (wc.dev.k = "bytes" /\ Len(splitlines(wc.dev.data)) > 0) =>
        LET sStatus == StatusLine(wc.dev.data)
        IN  /\ wc.ret.t = "str" => sStatus = sOK
            /\ (Len(sStatus) > 0 /\ sStatus[1] = "?") =>
                  /\ IsFailureTuple(wc.ret)
                  /\ wc.ret.code = sStatus
                  /\ wc.ret.msg.t = "str"


\* C29: no run ends in an exception nothing catches: from openport on, a
\* run ends by a fatal exit or at exitchecks
NoUnhandledException ==
    pc # "raised"


\* the keys of a text of Key: Value lines: what stands between the start of
\* a line and the first colon after it
LineKeys(text) ==
    {SubSeq(text, a, (CHOOSE c \in a..Len(text) :
                         /\ text[c] = ":"
                         /\ \A j \in a..(c - 1) : text[j] # ":") - 1) :
        a \in {1} \cup {i + 1 : i \in {k \in 1..(Len(text) - 1) : text[k] = "\n"}}}

\* C30: when the version exchange is a Success whose payload is made of
\* Key: Value lines, what getversion returns has the key of every line,
\* whatever the place of the line
VersionKeysOnAnyLine ==
    (pc = "returned" /\ wc.ret.t = "str") =>
        /\ tVersion.t = "dict"
        /\ LineKeys(wc.ret.v) \subseteq DOMAIN tVersion.d

=============================================================================
